---- MODULE Spec2Model ----
(***************************************************************************)
(* The KV facade of consulrs (src/kv.rs): delete, keys, read, read_raw,    *)
(* read_json, read_json_raw, set and set_json over the execution           *)
(* collaborator (api::exec_with_result / api::exec_with_raw), the request  *)
(* builders and the remote store.                                          *)
(*                                                                         *)
(* One action per facade function.  An action is one whole invocation:     *)
(* the builder is finalised, the request is executed against the store     *)
(* (or the round trip fails), and the function's own post-processing       *)
(* produces the outcome returned to the caller.  The caller awaits each    *)
(* call: `call` holds the invocation whose outcome the caller has in hand, *)
(* and Return is the caller dropping it before the next call.              *)
(***************************************************************************)
EXTENDS Integers, Sequences, FiniteSets, TLC

VARIABLES store, call, written

vars == <<store, call, written>>

(***************************************************************************)
(* Option<T> and Result<T, E>                                              *)
(***************************************************************************)
None == [some |-> FALSE]

Some(x) == [some |-> TRUE, val |-> x]

Ok(x) == [ok |-> TRUE, val |-> x]

Err(e) == [ok |-> FALSE, err |-> e]

\* Option::unwrap_or
UnwrapOr(opt, default) == IF opt.some THEN opt.val ELSE default

(***************************************************************************)
(* Bounds                                                                  *)
(***************************************************************************)
\* longest string held by a TestObject's field
MaxStrLen == 1

(***************************************************************************)
(* Keys.  A key is a sequence of characters; K2 lies under the prefix K1,  *)
(* K3 is a key only a caller's pre-populated builder names.                *)
(***************************************************************************)
K1 == <<"t">>

K2 == <<"t", "1">>

K3 == <<"x">>

Keys == {K1, K2}

AllKeys == {K1, K2, K3}

Paths == Keys \cup {<<>>}

IsPrefix(p, k) == Len(p) <= Len(k) /\ SubSeq(k, 1, Len(p)) = p

\* the order in which the store lists keys: a key before the keys under it
KeyRank(k) == IF k = K1 THEN 1 ELSE IF k = K2 THEN 2 ELSE 3

RECURSIVE SortedKeys(_)
SortedKeys(S) ==
    IF S = {} THEN <<>>
    ELSE LET k == CHOOSE x \in S : \A y \in S : KeyRank(x) <= KeyRank(y)
         IN  <<k>> \o SortedKeys(S \ {k})

(***************************************************************************)
(* Bytes are sequences of 0..255; text is its ASCII codes.                 *)
(***************************************************************************)
QUOTE == 34

BACKSLASH == 92

\* the characters a field of a TestObject is drawn from: the letter a and the double quote
StrChars == {97, QUOTE}

RECURSIVE SeqsUpTo(_, _)
SeqsUpTo(S, n) ==
    IF n = 0 THEN {<<>>}
    ELSE LET shorter == SeqsUpTo(S, n - 1)
         IN  shorter \cup {Append(s, c) : s \in shorter, c \in S}

Strings == SeqsUpTo(StrChars, MaxStrLen)

\* {"field":
FieldPrefix == <<123, QUOTE, 102, 105, 101, 108, 100, QUOTE, 58>>

TrueText == <<116, 114, 117, 101>>

FalseText == <<102, 97, 108, 115, 101>>

(***************************************************************************)
(* serde_json::to_vec over the values the callers serialize: the test's    *)
(* TestObject { field: String }, a bool, and a map with non-string keys,   *)
(* which serde_json refuses to serialize.                                  *)
(***************************************************************************)
TestObject(s) == [type |-> "TestObject", field |-> s]

BoolObject(b) == [type |-> "bool", b |-> b]

BadMap == [type |-> "BadMap"]

Objects == {TestObject(s) : s \in Strings} \cup {BoolObject(TRUE), BadMap}

Types == {"TestObject", "bool"}

RECURSIVE EscapeStr(_)
EscapeStr(s) ==
    IF s = <<>> THEN <<>>
    ELSE IF Head(s) \in {QUOTE, BACKSLASH}
         THEN <<BACKSLASH, Head(s)>> \o EscapeStr(Tail(s))
         ELSE <<Head(s)>> \o EscapeStr(Tail(s))

to_vec(o) ==
    CASE o.type = "TestObject" ->
            Ok(FieldPrefix \o <<QUOTE>> \o EscapeStr(o.field) \o <<QUOTE, 125>>)
      [] o.type = "bool" -> Ok(IF o.b THEN TrueText ELSE FalseText)
      [] OTHER -> Err("key must be a string")

(***************************************************************************)
(* serde_json::from_slice::<T>.  ParseStr reads the body of a JSON string  *)
(* from position i (after the opening quote) up to its closing quote.      *)
(***************************************************************************)
RECURSIVE ParseStr(_, _, _)
ParseStr(b, i, acc) ==
    IF i > Len(b) THEN Err("EOF while parsing a string")
    ELSE IF b[i] = QUOTE THEN Ok([str |-> acc, next |-> i + 1])
    ELSE IF b[i] = BACKSLASH
         THEN IF i + 1 <= Len(b) /\ b[i + 1] \in {QUOTE, BACKSLASH}
              THEN ParseStr(b, i + 2, Append(acc, b[i + 1]))
              ELSE Err("invalid escape")
    ELSE ParseStr(b, i + 1, Append(acc, b[i]))

from_slice(T, b) ==
    CASE T = "TestObject" ->
            LET n == Len(FieldPrefix)
            IN  IF Len(b) > n /\ SubSeq(b, 1, n) = FieldPrefix /\ b[n + 1] = QUOTE
                THEN LET r == ParseStr(b, n + 2, <<>>)
                     IN  IF ~r.ok THEN Err(r.err)
                         ELSE IF r.val.next = Len(b) /\ b[Len(b)] = 125
                              THEN Ok(TestObject(r.val.str))
                              ELSE Err("expected closing brace")
                ELSE Err("invalid type: expected struct TestObject")
      [] OTHER ->
            IF b = TrueText THEN Ok(BoolObject(TRUE))
            ELSE IF b = FalseText THEN Ok(BoolObject(FALSE))
            ELSE Err("invalid type: expected a boolean")

(***************************************************************************)
(* Base64String: the wire form of a KV pair's value.  Encoding maps each   *)
(* group of three bytes to four sextets (64 is the padding character);     *)
(* decoding is the TryInto<Vec<u8>> conversion.                            *)
(***************************************************************************)
PAD == 64

RECURSIVE Base64Encode(_)
Base64Encode(b) ==
    IF b = <<>> THEN <<>>
    ELSE IF Len(b) = 1
         THEN <<b[1] \div 4, (b[1] % 4) * 16, PAD, PAD>>
    ELSE IF Len(b) = 2
         THEN <<b[1] \div 4, (b[1] % 4) * 16 + b[2] \div 16, (b[2] % 16) * 4, PAD>>
    ELSE <<b[1] \div 4, (b[1] % 4) * 16 + b[2] \div 16,
           (b[2] % 16) * 4 + b[3] \div 64, b[3] % 64>>
         \o Base64Encode(SubSeq(b, 4, Len(b)))

RECURSIVE Base64Decode(_)
Base64Decode(s) ==
    IF s = <<>> THEN Ok(<<>>)
    ELSE IF Len(s) < 4 \/ s[1] = PAD \/ s[2] = PAD THEN Err("Base64DecodeError")
    ELSE LET b1 == s[1] * 4 + s[2] \div 16
             b2 == (s[2] % 16) * 16 + s[3] \div 4
             b3 == (s[3] % 4) * 64 + s[4]
         IN  IF s[3] = PAD
             THEN IF s[4] = PAD /\ Len(s) = 4 THEN Ok(<<b1>>)
                  ELSE Err("Base64DecodeError")
             ELSE IF s[4] = PAD
                  THEN IF Len(s) = 4 THEN Ok(<<b1, b2>>)
                       ELSE Err("Base64DecodeError")
             ELSE LET rest == Base64Decode(SubSeq(s, 5, Len(s)))
                  IN  IF rest.ok THEN Ok(<<b1, b2, b3>> \o rest.val) ELSE rest

(***************************************************************************)
(* ClientError                                                             *)
(***************************************************************************)
EmptyResponseError == [kind |-> "EmptyResponseError"]

JsonDeserializeError(e) == [kind |-> "JsonDeserializeError", source |-> e]

JsonSerializeError(e) == [kind |-> "JsonSerializeError", source |-> e]

Base64DecodeError(e) == [kind |-> "Base64DecodeError", source |-> e]

\* what a failed round trip reports: a transport failure, a non-success
\* status, a reply whose body does not deserialize
NetErrors ==
    {[kind |-> "RestClientError"], [kind |-> "APIError", code |-> 500],
     [kind |-> "ResponseParseError"]}

\* a reply that does not deserialize comes from a store that has carried out
\* the request; the other failures leave the store as it was
AppliedAnyway(e) == e.kind = "ResponseParseError"

(***************************************************************************)
(* Request builders (api::kv::requests).  A setter stores the field; the   *)
(* finalisation fails when a required field was never set.                 *)
(***************************************************************************)
\* DeleteKeyRequest::builder(), ReadKeysRequest::builder(),
\* ReadKeyRequest::builder(), ReadRawKeyRequest::builder()
QueryBuilder == [key |-> None, recurse |-> None]

\* SetKeyRequest::builder()
SetKeyBuilder == [key |-> None, value |-> None, flags |-> None]

SetKey(b, k) == [b EXCEPT !.key = Some(k)]

SetValue(b, v) == [b EXCEPT !.value = Some(v)]

BuildQuery(endpoint, b) ==
    IF ~b.key.some THEN Err("UninitializedField(key)")
    ELSE Ok([endpoint |-> endpoint, key |-> b.key.val,
             recurse |-> UnwrapOr(b.recurse, FALSE)])

BuildSet(b) ==
    IF ~b.key.some THEN Err("UninitializedField(key)")
    ELSE IF ~b.value.some THEN Err("UninitializedField(value)")
    ELSE Ok([endpoint |-> "SetKey", key |-> b.key.val, value |-> b.value.val,
             flags |-> UnwrapOr(b.flags, 0)])

(***************************************************************************)
(* The remote store: a key is absent (None), or present with a value that  *)
(* is itself optional.                                                     *)
(***************************************************************************)
Absent == None

Present(k, st) == st[k].some

Matching(st, req) ==
    {k \in AllKeys : Present(k, st) /\ IF req.recurse THEN IsPrefix(req.key, k)
                                                       ELSE k = req.key}

\* the KV pair the store returns for key k; m is the metadata of the reply
KVPair(st, k, m) ==
    [key |-> k,
     value |-> IF st[k].val.some THEN Some(Base64Encode(st[k].val.val)) ELSE None,
     create_index |-> Len(k),
     modify_index |-> m.index.val,
     lock_index |-> Len(k) - 1,
     flags |-> 10 + Len(k),
     namespace |-> Some("default"),
     session |-> IF Len(k) = 1 THEN Some("session-1") ELSE None]

\* the reply metadata carried by the response headers
EnvMetas ==
    {[index |-> Some(7), cache |-> Some("HIT"), known_leader |-> Some("true"),
      last_contact |-> Some("0"), query_backend |-> Some("blocking-query"),
      content_hash |-> Some("abc"), default_acl_policy |-> Some("allow")],
     [index |-> Some(8), cache |-> None, known_leader |-> Some("false"),
      last_contact |-> Some("15"), query_backend |-> None,
      content_hash |-> None, default_acl_policy |-> Some("deny")]}

Envelope(m, payload) ==
    [response |-> payload, index |-> m.index, cache |-> m.cache,
     known_leader |-> m.known_leader, last_contact |-> m.last_contact,
     query_backend |-> m.query_backend, content_hash |-> m.content_hash,
     default_acl_policy |-> m.default_acl_policy]

\* one round trip: it fails, or the store answers with reply metadata m
Net == {[ok |-> FALSE, err |-> e] : e \in NetErrors}
       \cup {[ok |-> TRUE, meta |-> m] : m \in EnvMetas}

StoreResponse(st, req, m) ==
    CASE req.endpoint = "ReadKey" ->
            LET ks == SortedKeys(Matching(st, req))
            IN  [i \in 1..Len(ks) |-> KVPair(st, ks[i], m)]
      [] req.endpoint = "ReadKeys" ->
            SortedKeys({k \in AllKeys : Present(k, st) /\ IsPrefix(req.key, k)})
      [] req.endpoint = "ReadRawKey" ->
            IF Present(req.key, st) /\ st[req.key].val.some
            THEN st[req.key].val.val ELSE <<>>
      [] OTHER -> TRUE

StoreApply(st, req) ==
    CASE req.endpoint = "SetKey" -> [st EXCEPT ![req.key] = Some(Some(req.value))]
      [] req.endpoint = "DeleteKey" ->
            [k \in AllKeys |-> IF k \in Matching(st, req) THEN Absent ELSE st[k]]
      [] OTHER -> st

(***************************************************************************)
(* The execution collaborator: one round trip for one request descriptor.  *)
(* exec_with_result decodes the body into the typed payload, exec_with_raw *)
(* returns the body's bytes.                                               *)
(***************************************************************************)
exec_with_result(st, net, endpoint) ==
    IF ~net.ok
    THEN [res |-> Err(net.err),
          store |-> IF AppliedAnyway(net.err) THEN StoreApply(st, endpoint) ELSE st]
    ELSE [res |-> Ok(Envelope(net.meta, StoreResponse(st, endpoint, net.meta))),
          store |-> StoreApply(st, endpoint)]

exec_with_raw(st, net, endpoint) ==
    IF ~net.ok
    THEN [res |-> Err(net.err),
          store |-> IF AppliedAnyway(net.err) THEN StoreApply(st, endpoint) ELSE st]
    ELSE [res |-> Ok(Envelope(net.meta, StoreResponse(st, endpoint, net.meta))),
          store |-> StoreApply(st, endpoint)]

(***************************************************************************)
(* What one invocation of a facade function did: the requests it sent,     *)
(* what the collaborator answered (None when it was never called), how the *)
(* function ended, and the store afterwards.                               *)
(***************************************************************************)
Returned(res) ==
    IF res.ok THEN [kind |-> "Ok", val |-> res.val] ELSE [kind |-> "Err", err |-> res.err]

\* Option::unwrap / Result::unwrap on None / Err
Panic == [kind |-> "Panic"]

Invocation(sent, exec, outcome, st) ==
    [sent |-> sent, exec |-> exec, outcome |-> outcome, store |-> st]

\* endpoint is the Result of build(); unwrap() panics on Err, then the
\* collaborator is awaited and its Result returned as it is
Execute(st, net, endpoint, raw) ==
    IF ~endpoint.ok THEN Invocation(<<>>, None, Panic, st)
    ELSE LET x == IF raw THEN exec_with_raw(st, net, endpoint.val)
                         ELSE exec_with_result(st, net, endpoint.val)
         IN  Invocation(<<endpoint.val>>, Some(x.res), Returned(x.res), x.store)

(***************************************************************************)
(* src/kv.rs                                                               *)
(***************************************************************************)
\* delete with the key set only on a builder that has none yet
delete_keeps_builder_key(st, net, key, opts) ==
    LET t == QueryBuilder
        b == UnwrapOr(opts, t)
        endpoint == BuildQuery("DeleteKey", IF b.key.some THEN b ELSE SetKey(b, key))
    IN  Execute(st, net, endpoint, FALSE)

delete(st, net, key, opts) ==
    LET t == QueryBuilder
        endpoint == BuildQuery("DeleteKey", SetKey(UnwrapOr(opts, t), key))
    IN  Execute(st, net, endpoint, FALSE)

keys(st, net, path, opts) ==
    LET t == QueryBuilder
        endpoint == BuildQuery("ReadKeys", SetKey(UnwrapOr(opts, t), path))
    IN  Execute(st, net, endpoint, FALSE)

read_raw(st, net, key, opts) ==
    LET t == QueryBuilder
        endpoint == BuildQuery("ReadRawKey", SetKey(UnwrapOr(opts, t), key))
    IN  Execute(st, net, endpoint, TRUE)

read(st, net, key, opts) ==
    LET t == QueryBuilder
        endpoint == BuildQuery("ReadKey", SetKey(UnwrapOr(opts, t), key))
    IN  Execute(st, net, endpoint, FALSE)

\* the first element instead of the last
pop_first(v) == v[1]

\* Vec::pop on a non-empty vector: its last element
pop(v) == v[Len(v)]

GenericKVPair(kv, t) ==
    [value |-> t,
     create_index |-> kv.create_index,
     flags |-> kv.flags,
     key |-> kv.key,
     lock_index |-> kv.lock_index,
     modify_index |-> kv.modify_index,
     namespace |-> kv.namespace,
     session |-> kv.session]

\* the envelope rebuilt without the consistency index
read_json_envelope_drops_index(res, gkv) ==
    [response |-> gkv,
     cache |-> res.cache,
     content_hash |-> res.content_hash,
     default_acl_policy |-> res.default_acl_policy,
     index |-> None,
     known_leader |-> res.known_leader,
     last_contact |-> res.last_contact,
     query_backend |-> res.query_backend]

read_json_envelope(res, gkv) ==
    [response |-> gkv,
     cache |-> res.cache,
     content_hash |-> res.content_hash,
     default_acl_policy |-> res.default_acl_policy,
     index |-> res.index,
     known_leader |-> res.known_leader,
     last_contact |-> res.last_contact,
     query_backend |-> res.query_backend]

\* an empty list answered with a default-constructed T
read_json_response_default(res, T) ==
    LET default == IF T = "TestObject" THEN TestObject(<<>>) ELSE BoolObject(FALSE)
        nokv == [key |-> <<>>, create_index |-> 0, modify_index |-> 0,
                 lock_index |-> 0, flags |-> 0, namespace |-> None, session |-> None]
    IN  IF res.response # <<>>
        THEN LET kv == pop(res.response)
             IN  IF ~kv.value.some THEN Panic
                 ELSE LET bytes == Base64Decode(kv.value.val)
                      IN  IF ~bytes.ok THEN Returned(Err(Base64DecodeError(bytes.err)))
                          ELSE LET t == from_slice(T, bytes.val)
                               IN  IF ~t.ok
                                   THEN Returned(Err(JsonDeserializeError(t.err)))
                                   ELSE Returned(Ok(read_json_envelope(
                                                      res, GenericKVPair(kv, t.val))))
        ELSE Returned(Ok(read_json_envelope(res, GenericKVPair(nokv, default))))

\* the body of read_json after the awaited call returned Ok(res)
read_json_response(res, T) ==
    IF res.response # <<>>
    THEN LET kv == pop(res.response)
         IN  IF ~kv.value.some THEN Panic
             ELSE LET bytes == Base64Decode(kv.value.val)
                  IN  IF ~bytes.ok THEN Returned(Err(Base64DecodeError(bytes.err)))
                      ELSE LET t == from_slice(T, bytes.val)
                           IN  IF ~t.ok
                               THEN Returned(Err(JsonDeserializeError(t.err)))
                               ELSE Returned(Ok(read_json_envelope(
                                                  res, GenericKVPair(kv, t.val))))
    ELSE Returned(Err(EmptyResponseError))

read_json(st, net, key, opts, T) ==
    LET t == QueryBuilder
        endpoint == BuildQuery("ReadKey", SetKey(UnwrapOr(opts, t), key))
        r == Execute(st, net, endpoint, FALSE)
    IN  IF r.outcome.kind = "Ok"
        THEN [r EXCEPT !.outcome = read_json_response(r.exec.val.val, T)]
        ELSE r

read_json_raw_envelope(res, t) ==
    [response |-> t,
     cache |-> res.cache,
     content_hash |-> res.content_hash,
     default_acl_policy |-> res.default_acl_policy,
     index |-> res.index,
     known_leader |-> res.known_leader,
     last_contact |-> res.last_contact,
     query_backend |-> res.query_backend]

\* the body of read_json_raw after the awaited call returned Ok(res)
read_json_raw_response(res, T) ==
    IF res.response # <<>>
    THEN LET t == from_slice(T, res.response)
         IN  IF ~t.ok THEN Returned(Err(JsonDeserializeError(t.err)))
             ELSE Returned(Ok(read_json_raw_envelope(res, t.val)))
    ELSE Returned(Err(EmptyResponseError))

\* read_json_raw sending the request again when the round trip failed
read_json_raw_retry(st, net, key, opts, T) ==
    LET t == QueryBuilder
        endpoint == BuildQuery("ReadRawKey", SetKey(UnwrapOr(opts, t), key))
        r == Execute(st, net, endpoint, TRUE)
    IN  IF r.outcome.kind = "Ok"
        THEN [r EXCEPT !.outcome = read_json_raw_response(r.exec.val.val, T)]
        ELSE IF r.outcome.kind = "Err"
             THEN LET again == Execute(r.store, net, endpoint, TRUE)
                  IN  [again EXCEPT !.sent = r.sent \o again.sent]
             ELSE r

read_json_raw(st, net, key, opts, T) ==
    LET t == QueryBuilder
        endpoint == BuildQuery("ReadRawKey", SetKey(UnwrapOr(opts, t), key))
        r == Execute(st, net, endpoint, TRUE)
    IN  IF r.outcome.kind = "Ok"
        THEN [r EXCEPT !.outcome = read_json_raw_response(r.exec.val.val, T)]
        ELSE r

\* set with the value set only on a builder that has none yet
set_keeps_builder_value(st, net, key, value, opts) ==
    LET t == SetKeyBuilder
        b == SetKey(UnwrapOr(opts, t), key)
        endpoint == BuildSet(IF b.value.some THEN b ELSE SetValue(b, value))
    IN  Execute(st, net, endpoint, FALSE)

set(st, net, key, value, opts) ==
    LET t == SetKeyBuilder
        endpoint == BuildSet(SetValue(SetKey(UnwrapOr(opts, t), key), value))
    IN  Execute(st, net, endpoint, FALSE)

\* set_json with the key set only on a builder that has none yet
set_json_keeps_builder_key(st, net, key, value, opts) ==
    LET t == SetKeyBuilder
        bytes == to_vec(value)
        b == UnwrapOr(opts, t)
    IN  IF ~bytes.ok
        THEN Invocation(<<>>, None, Returned(Err(JsonSerializeError(bytes.err))), st)
        ELSE LET endpoint == BuildSet(SetValue(IF b.key.some THEN b ELSE SetKey(b, key),
                                               bytes.val))
             IN  Execute(st, net, endpoint, FALSE)

\* set_json storing an empty value when the value does not serialize
set_json_unwrap_or_default(st, net, key, value, opts) ==
    LET t == SetKeyBuilder
        bytes == to_vec(value)
        endpoint == BuildSet(SetValue(SetKey(UnwrapOr(opts, t), key),
                                      IF bytes.ok THEN bytes.val ELSE <<>>))
    IN  Execute(st, net, endpoint, FALSE)

set_json(st, net, key, value, opts) ==
    LET t == SetKeyBuilder
        bytes == to_vec(value)
    IN  IF ~bytes.ok
        THEN Invocation(<<>>, None, Returned(Err(JsonSerializeError(bytes.err))), st)
        ELSE LET endpoint ==
                     BuildSet(SetValue(SetKey(UnwrapOr(opts, t), key), bytes.val))
             IN  Execute(st, net, endpoint, FALSE)

(***************************************************************************)
(* The callers: the keys, values and pre-populated builders they pass.     *)
(***************************************************************************)
RawValues == {<<>>, TrueText}

QueryOpts ==
    {None, Some([key |-> None, recurse |-> Some(TRUE)]),
     Some([key |-> Some(K3), recurse |-> None]),
     Some([key |-> Some(K3), recurse |-> Some(TRUE)])}

SetOpts ==
    {None, Some([key |-> None, value |-> None, flags |-> Some(7)]),
     Some([key |-> Some(K3), value |-> Some(<<120>>), flags |-> None]),
     Some([key |-> Some(K3), value |-> Some(<<120>>), flags |-> Some(7)])}

Recursing(opts) == opts.some /\ opts.val.recurse = Some(TRUE)

\* the keys an invocation writes to, as its caller asked for it
Touched(op, key, opts) ==
    CASE op \in {"set", "set_json"} -> {key}
      [] op = "delete" -> IF Recursing(opts) THEN {k \in Keys : IsPrefix(key, k)}
                                             ELSE {key}
      [] OTHER -> {}

Idle == [op |-> "none"]

Stored(op, r) ==
    /\ op \in {"set", "set_json"}
    /\ r.outcome.kind = "Ok"
    /\ r.outcome.val.response = TRUE

\* written[k]: the last set / set_json on k that succeeded, None once any
\* later set, set_json or delete touched k
Invoke(op, key, value, opts, T, r) ==
    /\ call = Idle
    /\ store' = r.store
    /\ call' = [op |-> op, key |-> key, value |-> value, opts |-> opts, T |-> T,
                sent |-> r.sent, exec |-> r.exec, outcome |-> r.outcome]
    /\ written' = [k \in Keys |->
                     IF k \in Touched(op, key, opts)
                     THEN IF Stored(op, r) THEN Some([via |-> op, arg |-> value.val])
                                           ELSE None
                     ELSE written[k]]

Init ==
    /\ store \in [AllKeys -> {Absent, Some(None)}]
    /\ store[K3] = Absent
    /\ call = Idle
    /\ written = [k \in Keys |-> None]

Delete ==
    \E key \in Keys, opts \in QueryOpts, net \in Net :
        Invoke("delete", key, None, opts, "-", delete(store, net, key, opts))

ListKeys ==
    \E path \in Paths, opts \in QueryOpts, net \in Net :
        Invoke("keys", path, None, opts, "-", keys(store, net, path, opts))

ReadRaw ==
    \E key \in Keys, opts \in QueryOpts, net \in Net :
        Invoke("read_raw", key, None, opts, "-", read_raw(store, net, key, opts))

Read ==
    \E key \in Keys, opts \in QueryOpts, net \in Net :
        Invoke("read", key, None, opts, "-", read(store, net, key, opts))

ReadJson ==
    \E key \in Keys, opts \in QueryOpts, T \in Types, net \in Net :
        Invoke("read_json", key, None, opts, T, read_json(store, net, key, opts, T))

ReadJsonRaw ==
    \E key \in Keys, opts \in QueryOpts, T \in Types, net \in Net :
        Invoke("read_json_raw", key, None, opts, T,
               read_json_raw(store, net, key, opts, T))

Set ==
    \E key \in Keys, value \in RawValues, opts \in SetOpts, net \in Net :
        Invoke("set", key, Some(value), opts, "-", set(store, net, key, value, opts))

SetJson ==
    \E key \in Keys, value \in Objects, opts \in SetOpts, net \in Net :
        Invoke("set_json", key, Some(value), opts, "-",
               set_json(store, net, key, value, opts))

\* the caller is done with the outcome of the call it awaited
Return ==
    /\ call # Idle
    /\ call' = Idle
    /\ UNCHANGED <<store, written>>

Next ==
    \/ Delete
    \/ ListKeys
    \/ ReadRaw
    \/ Read
    \/ ReadJson
    \/ ReadJsonRaw
    \/ Set
    \/ SetJson
    \/ Return

Spec == Init /\ [][Next]_vars

(***************************************************************************)
(* Properties                                                              *)
(***************************************************************************)
\* the collaborator answered the call in hand with an envelope
Answered == call.op # "none" /\ call.exec.some /\ call.exec.val.ok

WrittenBy(op, k) == written[k].some /\ written[k].val.via = op

\* C1: a non-recursive read(K) that the store answers, made after a set(K, V)
\* that succeeded and with no set, set_json or delete on K since, returns Ok
\* with exactly one KV pair, whose value decodes to V.
C1_ByteRoundTrip ==
    (call.op = "read" /\ ~Recursing(call.opts) /\ Answered /\ WrittenBy("set", call.key))
    => /\ call.outcome.kind = "Ok"
       /\ Len(call.outcome.val.response) = 1
       /\ LET kv == call.outcome.val.response[1]
          IN  /\ kv.value.some
              /\ Base64Decode(kv.value.val) = Ok(written[call.key].val.arg)

\* a read of K1 returning the bytes set on it, while K2 holds a value
\* written by another call
C1_Witness ==
    /\ call.op = "read" /\ call.key = K1 /\ ~Recursing(call.opts) /\ Answered
    /\ WrittenBy("set", K1) /\ written[K1].val.arg = TrueText
    /\ written[K2].some
    /\ Len(call.outcome.val.response) = 1
    /\ Base64Decode(call.outcome.val.response[1].value.val) = Ok(TrueText)

\* C2: a non-recursive read_json::<T>(K) that the store answers, made after a
\* set_json(K, O) that succeeded with O of type T and with no write to K since,
\* returns Ok with a generic KV pair whose key is K and whose value equals O.
C2_JsonRoundTrip ==
    (call.op = "read_json" /\ ~Recursing(call.opts) /\ Answered
       /\ WrittenBy("set_json", call.key) /\ written[call.key].val.arg.type = call.T)
    => /\ call.outcome.kind = "Ok"
       /\ call.outcome.val.response.key = call.key
       /\ call.outcome.val.response.value = written[call.key].val.arg

\* a TestObject whose field holds a double quote comes back from read_json
C2_Witness ==
    /\ call.op = "read_json" /\ ~Recursing(call.opts) /\ Answered
    /\ WrittenBy("set_json", call.key)
    /\ written[call.key].val.arg = TestObject(<<QUOTE>>)
    /\ call.outcome.kind = "Ok"
    /\ call.outcome.val.response.value = TestObject(<<QUOTE>>)

\* C3: read_json fails with EmptyResponseError whenever the store answers with
\* zero pairs, which it does for a non-recursive read of a key with no stored
\* value; on such a key read_json never returns Ok.
C3_EmptyRead ==
    call.op = "read_json"
    => /\ (Answered /\ call.exec.val.val.response = <<>>)
          => call.outcome = Returned(Err(EmptyResponseError))
       /\ (~Present(call.key, store) /\ ~Recursing(call.opts))
          => /\ call.outcome.kind # "Ok"
             /\ Answered => call.outcome = Returned(Err(EmptyResponseError))

C3_Witness ==
    /\ call.op = "read_json" /\ ~Present(call.key, store) /\ ~Recursing(call.opts)
    /\ Answered
    /\ call.outcome = Returned(Err(EmptyResponseError))

EnvelopeFields(e) ==
    <<e.index, e.cache, e.known_leader, e.last_contact, e.query_backend,
      e.content_hash, e.default_acl_policy>>

PairFields(p) ==
    <<p.create_index, p.modify_index, p.lock_index, p.flags, p.key, p.namespace,
      p.session>>

\* what read_json makes of the pair kv of the answered envelope
FromPair(kv) ==
    LET bytes == Base64Decode(kv.value.val)
        t == from_slice(call.T, bytes.val)
    IN  IF bytes.ok /\ t.ok
        THEN /\ call.outcome.kind = "Ok"
             /\ PairFields(call.outcome.val.response) = PairFields(kv)
             /\ call.outcome.val.response.value = t.val
        ELSE call.outcome.kind = "Err"

C5_FirstElement ==
    (call.op = "read_json" /\ Answered /\ call.exec.val.val.response # <<>>)
    => LET list == call.exec.val.val.response
       IN  (list[1].value.some /\ list[Len(list)].value.some) => FromPair(list[1])

EndpointOf(op) ==
    CASE op = "delete" -> "DeleteKey"
      [] op = "keys" -> "ReadKeys"
      [] op = "read_raw" -> "ReadRawKey"
      [] op = "read" -> "ReadKey"
      [] op = "read_json" -> "ReadKey"
      [] op = "read_json_raw" -> "ReadRawKey"
      [] OTHER -> "SetKey"

\* the executed request carries the arguments and the builder's other options
KeyAndValueForced ==
    LET req == call.sent[1]
        b == UnwrapOr(call.opts, IF call.op \in {"set", "set_json"}
                                 THEN SetKeyBuilder ELSE QueryBuilder)
    IN  /\ req.endpoint = EndpointOf(call.op)
        /\ req.key = call.key
        /\ call.op = "set" => req.value = call.value.val
        /\ call.op = "set_json" => Ok(req.value) = to_vec(call.value.val)
        /\ call.op \in {"set", "set_json"} => req.flags = UnwrapOr(b.flags, 0)
        /\ call.op \notin {"set", "set_json"} => req.recurse = UnwrapOr(b.recurse, FALSE)

\* C6: the request every operation executes carries the key passed as the
\* argument (and, for set and set_json, the value passed, serialized for
\* set_json) whatever the caller's builder held, keeps the builder's other
\* options, and has the defaults when no builder was passed; the builder is
\* always finalised, so a request is executed unless set_json failed to
\* serialize.
C6_Override ==
    call.op # "none"
    => /\ call.exec.some \/ call.outcome.kind = "Err"
       /\ call.exec.some => (Len(call.sent) >= 1 /\ KeyAndValueForced)

\* a delete through a builder that named K3 and asked to recurse is sent for
\* the argument key, recursing
C6_Witness ==
    /\ call.op = "delete" /\ call.opts.some /\ call.opts.val.key = Some(K3)
    /\ call.opts.val.recurse = Some(TRUE)
    /\ call.sent = <<[endpoint |-> "DeleteKey", key |-> call.key, recurse |-> TRUE]>>

Unserializable == call.op = "set_json" /\ ~to_vec(call.value.val).ok

\* C7: a set_json whose value does not serialize returns JsonSerializeError
\* without the collaborator having been called, and leaves the store as it was.
C7_SerializeFirst ==
    /\ [](Unserializable
          => /\ call.outcome.kind = "Err"
             /\ call.outcome.err.kind = "JsonSerializeError"
             /\ call.sent = <<>>
             /\ ~call.exec.some)
    /\ [][Unserializable' => store' = store]_vars

C7_Witness ==
    /\ Unserializable
    /\ call.outcome.kind = "Err"
    /\ \E k \in Keys : Present(k, store)

\* C8: an invocation that reaches the execution step sends exactly one
\* request, also when the round trip fails, and the collaborator's error is
\* returned as it is.
C8_OneRoundTrip ==
    call.op # "none"
    => /\ Len(call.sent) = IF call.exec.some THEN 1 ELSE 0
       /\ (call.exec.some /\ ~call.exec.val.ok)
          => call.outcome = [kind |-> "Err", err |-> call.exec.val.err]

C8_Witness ==
    /\ call.op = "read_json_raw" /\ call.exec.some /\ ~call.exec.val.ok
    /\ Len(call.sent) = 1
    /\ call.outcome = [kind |-> "Err", err |-> [kind |-> "APIError", code |-> 500]]

\* C9: every invocation ends with Ok or with an error returned to the caller.
C9_OkOrErr ==
    call.op # "none" => call.outcome.kind \in {"Ok", "Err"}

\* C10: on success of read_json and read_json_raw the returned envelope has
\* the metadata of the collaborator's envelope, field for field, and the
\* generic KV pair of read_json has the metadata of the pair it was built from.
C10_MetadataKept ==
    (call.op \in {"read_json", "read_json_raw"} /\ call.outcome.kind = "Ok")
    => /\ EnvelopeFields(call.outcome.val) = EnvelopeFields(call.exec.val.val)
       /\ call.op = "read_json"
          => LET list == call.exec.val.val.response
             IN  PairFields(call.outcome.val.response) = PairFields(list[Len(list)])

C10_Witness ==
    /\ call.op = "read_json" /\ call.outcome.kind = "Ok"
    /\ call.outcome.val.index = Some(8)
    /\ call.outcome.val.cache = None
    /\ call.outcome.val.response.session = Some("session-1")

====
